---- MODULE Spec2Model ----
(***************************************************************************)
(* A model of tools/charm_helpers_sync/charm_helpers_sync.py.              *)
(*                                                                         *)
(* Python strings are modelled as sequences of tokens.  A token is a       *)
(* piece of text the program never looks inside: a name ("core"), a file   *)
(* extension (".py"), or one of the characters the program splits or       *)
(* matches on ("/", ".", "|", ",", "=", "*").  String concatenation is \o. *)
(* The file system is a pair of sets of canonical absolute paths, one of   *)
(* regular files and one of directories.                                   *)
(***************************************************************************)
EXTENDS Naturals, Sequences, FiniteSets, TLC

VARIABLES
    pc,          \* position of the run: see the actions below
    env,         \* what the run finds: [cwd, dest, upstream, cfgfile]; dest is
                 \* the destination the config file or the command line names
    cli,         \* the parsed command line: [config, dest_dir, args]
    config,      \* the config mapping (a function from keys to values)
    files,       \* regular files of the file system
    dirs,        \* directories of the file system
    idx,         \* sync_helpers: index of the next include-spec
    log,         \* the messages logged by the sync engine, in order
    exc,         \* TRUE once an exception propagates
    status,      \* process exit status, "none" while running
    hist,        \* history of the run, read only by the properties
    inp          \* inputs of the pure-function specifications

vars == <<pc, env, cli, config, files, dirs, idx, log, exc, status,
          hist, inp>>

-----------------------------------------------------------------------------
(* Strings *)

StartsWith(s, t) == Len(s) >= Len(t) /\ SubSeq(s, 1, Len(t)) = t

EndsWith(s, t) == Len(s) >= Len(t) /\ SubSeq(s, Len(s) - Len(t) + 1, Len(s)) = t

\* t in s, for strings
Contains(s, t) ==
    \E i \in 1..(Len(s) + 1) : i + Len(t) - 1 <= Len(s)
                               /\ SubSeq(s, i, i + Len(t) - 1) = t

\* x in l, for lists
InList(x, l) == \E i \in DOMAIN l : l[i] = x

Front(s) == SubSeq(s, 1, Len(s) - 1)

Last(s) == s[Len(s)]

\* s.split(sep), sep one token: a list of strings
RECURSIVE Split(_, _)
Split(s, sep) ==
    IF \A i \in DOMAIN s : s[i] # sep
    THEN <<s>>
    ELSE LET i == CHOOSE k \in DOMAIN s :
                      s[k] = sep /\ \A j \in 1..(k - 1) : s[j] # sep
         IN  <<SubSeq(s, 1, i - 1)>> \o Split(SubSeq(s, i + 1, Len(s)), sep)

\* sep.join(parts)
RECURSIVE StrJoin(_, _)
StrJoin(parts, sep) ==
    IF parts = <<>> THEN <<>>
    ELSE IF Len(parts) = 1 THEN parts[1]
    ELSE parts[1] \o <<sep>> \o StrJoin(Tail(parts), sep)

\* fnmatch(name, pat): "*" matches any run of tokens, "/" included
RECURSIVE fnmatch(_, _)
fnmatch(name, pat) ==
    IF pat = <<>> THEN name = <<>>
    ELSE IF pat[1] = "*"
         THEN fnmatch(name, Tail(pat))
              \/ (name # <<>> /\ fnmatch(Tail(name), pat))
         ELSE name # <<>> /\ name[1] = pat[1] /\ fnmatch(Tail(name), Tail(pat))

-----------------------------------------------------------------------------
(* os.path *)

\* os.path.join(a, b)
Join2(a, b) ==
    IF b # <<>> /\ b[1] = "/" THEN b
    ELSE IF a = <<>> \/ Last(a) = "/" THEN a \o b
    ELSE a \o <<"/">> \o b

\* os.path.join(*parts), parts not empty
RECURSIVE PathJoin(_)
PathJoin(parts) ==
    IF Len(parts) = 1 THEN parts[1]
    ELSE Join2(PathJoin(Front(parts)), Last(parts))

\* index of the last "/" of p, 0 if none
LastSlash(p) ==
    IF \A i \in DOMAIN p : p[i] # "/" THEN 0
    ELSE CHOOSE i \in DOMAIN p :
             p[i] = "/" /\ \A j \in (i + 1)..Len(p) : p[j] # "/"

RECURSIVE RStripSlash(_)
RStripSlash(p) ==
    IF p # <<>> /\ Last(p) = "/" THEN RStripSlash(Front(p)) ELSE p

\* os.path.dirname(p)
dirname(p) ==
    LET head == SubSeq(p, 1, LastSlash(p))
    IN  IF head # <<>> /\ \E i \in DOMAIN head : head[i] # "/"
        THEN RStripSlash(head)
        ELSE head

\* os.path.basename(p)
basename(p) == SubSeq(p, LastSlash(p) + 1, Len(p))

\* the concatenation of "/" \o c over the non-empty components c of parts
RECURSIVE Flatten(_)
Flatten(parts) ==
    IF parts = <<>> THEN <<>>
    ELSE (IF parts[1] = <<>> THEN <<>> ELSE <<"/">> \o parts[1])
         \o Flatten(Tail(parts))

\* The canonical absolute path the kernel resolves p to from directory wd:
\* "/c1/c2/...", the root being the empty string.
Canon(wd, p) ==
    Flatten(Split(IF p # <<>> /\ p[1] = "/" THEN p ELSE wd \o <<"/">> \o p, "/"))

-----------------------------------------------------------------------------
(* The file system: fs = [files, dirs, cwd] *)

\* c is strictly below directory d (both canonical)
Below(c, d) == Len(c) > Len(d) /\ SubSeq(c, 1, Len(d)) = d /\ c[Len(d) + 1] = "/"

\* the parent directory of a canonical path
Parent(c) == SubSeq(c, 1, LastSlash(c) - 1)

\* a canonical path and all its ancestors, the root included
Ancestors(c) ==
    {SubSeq(c, 1, i - 1) : i \in {k \in DOMAIN c : c[k] = "/"}} \cup {c}

isfile(fs, p) == Canon(fs.cwd, p) \in fs.files

isdir(fs, p) == Canon(fs.cwd, p) \in fs.dirs

exists(fs, p) == isfile(fs, p) \/ isdir(fs, p)

\* os.makedirs(p)
makedirs(fs, p) ==
    [fs EXCEPT !.dirs = @ \cup Ancestors(Canon(fs.cwd, p))]

\* shutil.rmtree(p)
rmtree(fs, p) ==
    LET c == Canon(fs.cwd, p)
    IN  [fs EXCEPT !.dirs = {d \in @ : d # c /\ ~Below(d, c)},
                   !.files = {f \in @ : ~Below(f, c)}]

\* os.listdir(p): the names of the entries of directory p
listdir(fs, p) ==
    LET c == Canon(fs.cwd, p)
    IN  {SubSeq(q, Len(c) + 2, Len(q)) :
             q \in {e \in fs.files \cup fs.dirs : e # <<>> /\ Parent(e) = c}}

\* the directories os.walk(top) visits: top and every directory below it
walk(fs, top) ==
    LET c == Canon(fs.cwd, top)
    IN  IF c \in fs.dirs THEN {d \in fs.dirs : d = c \/ Below(d, c)} ELSE {}

\* open(p, 'wb').close() and the writing half of shutil.copy: p becomes a file
writefile(fs, c) == [fs EXCEPT !.files = @ \cup {c}]

-----------------------------------------------------------------------------
(* The sync engine.  An operation returns [fs, raised, log]: the file      *)
(* system it leaves, whether it raised, and the messages it logged.        *)

INIT == <<"__init__">>

PY == <<".py">>

INIT_PY == INIT \o PY

INC_ALL == <<"inc", "=", "*">>

Ok(fs, lg) == [fs |-> fs, raised |-> FALSE, log |-> lg]

Raise(fs, lg) == [fs |-> fs, raised |-> TRUE, log |-> lg]

\* _module_path(module)
_module_path(module) == PathJoin(Split(module, "."))

\* _src_path(src, module)
_src_path(src, module) ==
    PathJoin(<<src, <<"charmhelpers">>, _module_path(module)>>)

\* _dest_path(dest, module)
_dest_path(dest, module) == Join2(dest, _module_path(module))

\* _is_pyfile(path)
_is_pyfile(fs, path) == isfile(fs, path \o PY)

\* the directory ensure_init walks from: os.path.join(*path.split('/')[:2])
WalkTop(path) ==
    LET parts == Split(path, "/")
    IN  PathJoin(SubSeq(parts, 1, IF Len(parts) < 2 THEN Len(parts) ELSE 2))

\* ensure_init(path)
ensure_init(fs, path) ==
    LET missing == {d \in walk(fs, WalkTop(path)) :
                        (d \o <<"/">> \o INIT_PY) \notin fs.files \cup fs.dirs}
    IN  [fs EXCEPT !.files = @ \cup {d \o <<"/">> \o INIT_PY : d \in missing}]

\* shutil.copy(src, dst): into dst when dst is a directory, else onto dst
copy(fs, src, dst) ==
    writefile(fs, Canon(fs.cwd, IF isdir(fs, dst)
                                THEN Join2(dst, basename(src)) ELSE dst))

\* sync_pyfile from its shutil.copy on: fs is the file system after makedirs
CopyPyfile(fs, srcpy, dest) ==
    IF ~isfile(fs, srcpy)
    THEN fs                                   \* shutil.copy raises: no such file
    ELSE ensure_init(IF isfile(fs, Join2(dirname(srcpy), INIT_PY))
                     THEN copy(copy(fs, srcpy, dest),
                               Join2(dirname(srcpy), INIT_PY), dest)
                     ELSE copy(fs, srcpy, dest),
                     dest)

\* the outcome of sync_pyfile, given the file system fs1 after its makedirs
PyfileOutcome(fs1, srcpy, dest) ==
    [fs |-> CopyPyfile(fs1, srcpy, dest),
     raised |-> ~isfile(fs1, srcpy),
     log |-> <<[op |-> "pyfile", src |-> srcpy, dest |-> dest]>>]

\* sync_pyfile(src, dest)
sync_pyfile(fs, src, dest) ==
    PyfileOutcome(IF ~exists(fs, dest) THEN makedirs(fs, dest) ELSE fs,
                  src \o PY, dest)

\* the list incs of _filter
Incs(opts) ==
    [i \in DOMAIN SelectSeq(opts, LAMBDA o : Contains(o, <<"inc", "=">>)) |->
        Last(Split(SelectSeq(opts, LAMBDA o : Contains(o, <<"inc", "=">>))[i], "="))]

\* Ignored without its last branch: directories are never filtered
IgnoredFilesOnly(fs, opts, dir, f) ==
    IF ~isdir(fs, Join2(dir, f)) /\ ~EndsWith(Join2(dir, f), PY) /\ Incs(opts) # <<>>
    THEN ~\E i \in DOMAIN Incs(opts) : fnmatch(Join2(dir, f), Incs(opts)[i])
    ELSE isfile(fs, Join2(dir, f)) /\ ~EndsWith(Join2(dir, f), PY)

\* the elif chain of _filter for the path _f, incs being the include globs:
\* whether the entry is put in the list _filter returns
IgnoredPath(fs, incs, _f) ==
    IF ~isdir(fs, _f) /\ ~EndsWith(_f, PY) /\ incs # <<>>
    THEN ~\E i \in DOMAIN incs : fnmatch(_f, incs[i])
    ELSE IF isfile(fs, _f) /\ ~EndsWith(_f, PY)
    THEN TRUE
    ELSE IF isdir(fs, _f) /\ ~isfile(fs, Join2(_f, INIT_PY))
    THEN TRUE
    ELSE FALSE

\* whether _filter(dir, ls) puts f in the list it returns
Ignored(fs, opts, dir, f) == IgnoredPath(fs, Incs(opts), Join2(dir, f))

\* _filter(dir, ls) of the closure get_filter(opts) returns
_filter(fs, opts, dir, ls) == {f \in ls : Ignored(fs, opts, dir, f)}

\* get_filter(opts): none for "no filter", else the closure over opts
get_filter(opts) ==
    IF InList(INC_ALL, opts) THEN [none |-> TRUE, opts |-> <<>>]
    ELSE [none |-> FALSE, opts |-> opts]

\* the names copytree copies: those of src that ignore does not return
Kept(fs, src, ignore) ==
    IF ignore.none THEN listdir(fs, src)
    ELSE listdir(fs, src) \ _filter(fs, ignore.opts, src, listdir(fs, src))

\* shutil.copytree(src, dst, ignore=ignore); CopyEntries copies the entries
\* named kept, the files at once and the directories one after the other
RECURSIVE copytree(_, _, _, _)
RECURSIVE CopySubdirs(_, _, _, _, _)
CopyEntries(fs, src, dst, ignore, kept) ==
    CopySubdirs([fs EXCEPT !.files =
                    @ \cup {Canon(fs.cwd, Join2(dst, n)) :
                               n \in {k \in kept : ~isdir(fs, Join2(src, k))}}],
                src, dst, ignore, {k \in kept : isdir(fs, Join2(src, k))})

copytree(fs, src, dst, ignore) ==
    CopyEntries(makedirs(fs, dst), src, dst, ignore, Kept(fs, src, ignore))

CopySubdirs(fs, src, dst, ignore, todo) ==
    IF todo = {} THEN fs
    ELSE CopySubdirs(copytree(fs, Join2(src, CHOOSE k \in todo : TRUE),
                              Join2(dst, CHOOSE k \in todo : TRUE), ignore),
                     src, dst, ignore, todo \ {CHOOSE k \in todo : TRUE})

\* sync_directory(src, dest, opts)
sync_directory(fs, src, dest, opts) ==
    Ok(ensure_init(copytree(IF exists(fs, dest) THEN rmtree(fs, dest) ELSE fs,
                            src, dest, get_filter(opts)),
                   dest),
       <<[op |-> "directory", src |-> src, dest |-> dest]>>)

\* outcome r followed by outcome n of the statements after it
Then(r, n) ==
    [fs |-> n.fs, raised |-> n.raised, log |-> r.log \o n.log]

\* the while loop of sync, after outcome r: the __init__.py of steps[1..k],
\* for k = from..Len(steps)
RECURSIVE SyncInits(_, _, _, _, _)
SyncInits(r, src, dest, steps, from) ==
    IF r.raised \/ from > Len(steps) THEN r
    ELSE SyncInits(
             Then(r, sync_pyfile(
                         r.fs,
                         _src_path(src, StrJoin(SubSeq(steps, 1, from) \o <<INIT>>, ".")),
                         dirname(_dest_path(dest, StrJoin(SubSeq(steps, 1, from)
                                                          \o <<INIT>>, "."))))),
             src, dest, steps, from + 1)

\* the last statement of sync, after outcome r: the module's directory, its
\* .py file, or a warning
SyncModule(r, src, dest, module, opts) ==
    IF r.raised THEN r
    ELSE IF isdir(r.fs, _src_path(src, module))
    THEN Then(r, sync_directory(r.fs, _src_path(src, module),
                                _dest_path(dest, module), opts))
    ELSE IF _is_pyfile(r.fs, _src_path(src, module))
    THEN Then(r, sync_pyfile(r.fs, _src_path(src, module),
                             dirname(_dest_path(dest, module))))
    ELSE Then(r, Ok(r.fs, <<[op |-> "warn", src |-> module, dest |-> <<>>]>>))

\* sync with the parents' __init__.py synced from the longest prefix to the
\* shortest
RECURSIVE SyncInitsDown(_, _, _, _, _)
SyncInitsDown(r, src, dest, steps, from) ==
    IF r.raised \/ from < 1 THEN r
    ELSE SyncInitsDown(
             Then(r, sync_pyfile(
                         r.fs,
                         _src_path(src, StrJoin(SubSeq(steps, 1, from) \o <<INIT>>, ".")),
                         dirname(_dest_path(dest, StrJoin(SubSeq(steps, 1, from)
                                                          \o <<INIT>>, "."))))),
             src, dest, steps, from - 1)

syncInitsReversed(fs, src, dest, module, opts) ==
    SyncModule(SyncInitsDown(sync_pyfile(fs, _src_path(src, INIT), dest),
                             src, dest, Front(Split(module, ".")),
                             Len(Split(module, ".")) - 1),
               src, dest, module, opts)

\* sync(src, dest, module, opts)
sync(fs, src, dest, module, opts) ==
    SyncModule(SyncInits(sync_pyfile(fs, _src_path(src, INIT), dest),
                         src, dest, Front(Split(module, ".")), 1),
               src, dest, module, opts)

\* parse_sync_options(options); None, like '', is the empty string here
parse_sync_options(options) ==
    IF options = <<>> THEN <<>> ELSE Split(options, ",")


\* global_options or [], and a str made a list.  A value g of
\* global_options is [type, v]: a list, a str or None.
GlobalList(g) ==
    IF g.v = <<>> THEN <<>> ELSE IF g.type = "str" THEN <<g.v>> ELSE g.v

\* extract_options(inc, global_options): [raised, inc, opts]
extract_options(inc, g) ==
    IF ~InList("|", inc)
    THEN [raised |-> FALSE, inc |-> inc, opts |-> GlobalList(g)]
    ELSE IF Len(Split(inc, "|")) # 2
    THEN [raised |-> TRUE, inc |-> inc, opts |-> <<>>]   \* ValueError: unpack
    ELSE [raised |-> FALSE, inc |-> Split(inc, "|")[1],
          opts |-> parse_sync_options(Split(inc, "|")[2]) \o GlobalList(g)]

AsList(l) == [type |-> "list", v |-> l]

\* sync(src, dest, prefix + inc, opts) for the pair eo extract_options gave,
\* or its ValueError
SyncPair(fs, src, dest, prefix, eo) ==
    IF eo.raised THEN Raise(fs, <<>>)
    ELSE sync(fs, src, dest, prefix \o eo.inc, eo.opts)

\* the loop over the members v of a mapping include-spec {k: v}, after
\* outcome r
RECURSIVE SyncMembers(_, _, _, _, _, _)
SyncMembers(r, src, dest, k, v, global_options) ==
    IF r.raised \/ v = <<>> THEN r
    ELSE SyncMembers(
             Then(r, SyncPair(r.fs, src, dest, k \o <<".">>,
                              extract_options(v[1], AsList(global_options)))),
             src, dest, k, Tail(v), global_options)

\* one iteration of the loop of sync_helpers, for include-spec inc:
\* [type |-> "str", s |-> string] or [type |-> "dict", k |-> key, v |-> list]
SyncSpec(fs, src, dest, inc, global_options) ==
    IF inc.type = "str"
    THEN SyncPair(fs, src, dest, <<>>,
                  extract_options(inc.s, AsList(global_options)))
    ELSE IF inc.type = "dict"
    THEN SyncMembers(Ok(fs, <<>>), src, dest, inc.k, inc.v, global_options)
    ELSE Ok(fs, <<>>)

\* CleanDest without the rmtree: what is there stays, the sync merges into it
CleanDestMerging(fs, dest) ==
    IF ~isdir(fs, dest) THEN makedirs(fs, dest) ELSE fs

\* the head of sync_helpers: the destination is removed and made again
CleanDest(fs, dest) ==
    LET fs1 == IF exists(fs, dest) THEN rmtree(fs, dest) ELSE fs
    IN  IF ~isdir(fs1, dest) THEN makedirs(fs1, dest) ELSE fs1

-----------------------------------------------------------------------------
(* What a run can be given *)

MaxInclude == 2    \* longest include list
MaxRuns == 2       \* invocations of the tool in a row

CH == <<"charmhelpers">>

\* the directory tempfile.mkdtemp() returns
TMPD == <<"/", "tmp", "/", "tmpd">>

\* the upstream repository: these files always ...
UpstreamBase ==
    { CH \o <<"/", "fetch", ".py">>,
      CH \o <<"/", "core", "/", "host", ".py">>,
      CH \o <<"/", "core", "/", "b", ".txt">>,
      CH \o <<"/", "core", "/", "sub", "/", "x", ".py">> }

\* ... and any of these package markers
UpstreamInits ==
    { CH \o <<"/">> \o INIT_PY,
      CH \o <<"/", "core", "/">> \o INIT_PY,
      CH \o <<"/", "core", "/", "sub", "/">> \o INIT_PY }

Upstreams ==
    {UpstreamBase \cup (UpstreamInits \ missing) :
        missing \in {{}} \cup {{m} : m \in UpstreamInits}}

Str(s) == [type |-> "str", s |-> s]

\* the include-specs a list is drawn from
IncludePool ==
    { Str(<<"core">>),                          \* a package
      Str(<<"nope">>),                          \* nothing upstream
      Str(<<"nope", ".", "mod">>),              \* nothing upstream, nor its parent
      [type |-> "dict", k |-> <<"core">>,
       v |-> << <<"sub", ".", "x">>, <<"sub", "|", "inc", "=", "*">> >>] }

IncludeLists == UNION {[1..n -> IncludePool] : n \in 0..MaxInclude}

\* destination and working directory
Places ==
    {
      [dest |-> <<"hooks", "/", "ch">>, cwd |-> <<"/", "home">>],
      [dest |-> <<"lib", "/", "hooks", "/", "ch">>, cwd |-> <<"/", "home">>],
      [dest |-> <<"/", "hooks", "/", "ch">>, cwd |-> <<"/", "home">>],
      [dest |-> <<"/", "hooks", "/", "ch">>, cwd |-> <<>>] }

OptionStrings == {<<>>, <<"inc", "=", "*", ".txt">>}

\* what the destination holds before the first run: nothing, or other files
OldFiles(c) ==
    { c \o <<"/", "old", ".txt">>, c \o <<"/", "core", "/", "stale", ".py">>,
      c \o <<"/", "gone", "/", "x", ".py">> }

\* the config files with a destination: with or without include and options
ConfigFiles(dest) ==
    LET d == "destination" :> dest
    IN  {d @@ ("include" :> [type |-> "list", v |-> l]) @@ o :
             l \in IncludeLists, o \in {<<>>} \cup {"options" :> x : x \in OptionStrings \ {<<>>}}}
        \cup {d, d @@ ("include" :> [type |-> "NoneType", v |-> <<>>])}

NoHist ==
    [runs |-> 1, tmpCreated |-> FALSE, cloneFailed |-> FALSE,
     syncInvoked |-> FALSE, raisedIn |-> "none",
     seg |-> [n |-> 0, raised |-> FALSE, log |-> <<>>],
     before |-> [files |-> {}, dirs |-> {}],
     atSync |-> [files |-> {}, dirs |-> {}],
     first |-> [files |-> {}, dirs |-> {}]]

NoInp == [f |-> "none"]

\* the files and directories at or below the destination
Under(fs, dest) ==
    LET c == Canon(fs.cwd, dest)
    IN  [files |-> {f \in fs.files : Below(f, c)},
         dirs  |-> {d \in fs.dirs : d = c \/ Below(d, c)}]

FS == [files |-> files, dirs |-> dirs, cwd |-> env.cwd]

Init ==
    /\ pc = "start"
    /\ \E place \in Places, up \in Upstreams, old \in BOOLEAN :
        LET c == Canon(place.cwd, place.dest)
            e == [cwd |-> place.cwd, dest |-> place.dest, upstream |-> up]
        IN  /\ \/ \* a config file that names the destination; positional
                  \* arguments, if any, when it has no include list
                  \E cf \in ConfigFiles(place.dest) :
                     /\ env = e @@ [cfgfile |-> cf]
                     /\ \E a \in {<<>>} \cup (IF "include" \in DOMAIN cf THEN {}
                                            ELSE {<< <<"fetch">> >>}) :
                           cli = [config |-> "valid", dest_dir |-> <<>>, args |-> a]
               \/ \* no config file, or one that cannot be loaded, or one
                  \* that names no destination and no modules: all there is
                  \* comes from the command line
                  /\ env = e @@ [cfgfile |->
                                    "options" :> <<"inc", "=", "*", ".txt">>]
                  /\ \E cfg \in {"none", "invalid", "valid"},
                        d \in {<<>>, place.dest},
                        a \in {<<>>, << <<"core">>, <<"fetch">> >>} :
                        cli = [config |-> cfg, dest_dir |-> d, args |-> a]
            /\ files = IF old THEN OldFiles(c) ELSE {}
            /\ dirs = Ancestors(place.cwd)
                      \cup (IF old THEN UNION {Ancestors(Parent(f)) : f \in OldFiles(c)}
                            ELSE {})
    /\ config = <<>>
    /\ idx = 0
    /\ log = <<>>
    /\ exc = FALSE
    /\ status = 0
    /\ hist = [NoHist EXCEPT !.before = Under(FS, env.dest)]
    /\ inp = NoInp

-----------------------------------------------------------------------------
(* The run: the __main__ block and sync_helpers, a step at a time *)

Exit(code) == pc' = "exit" /\ status' = code

\* parser.parse_args() to the loading of the config file
LoadConfig ==
    /\ pc = "start"
    /\ IF cli.config = "invalid"                 \* parse_config gave False or None
       THEN Exit(1) /\ UNCHANGED config
       ELSE /\ config' = IF cli.config = "valid" THEN env.cfgfile ELSE <<>>
            /\ pc' = "merge"
            /\ UNCHANGED status
    /\ UNCHANGED <<env, cli, files, dirs, idx, log, exc, hist, inp>>

\* config with the command line merged in, up to sync_options
Merged ==
    LET c1 == IF cli.dest_dir # <<>>
              THEN ("destination" :> cli.dest_dir) @@ config ELSE config
    IN  IF "include" \notin DOMAIN c1 /\ cli.args # <<>>
        THEN ("include" :> [type |-> "list",
                            v |-> [i \in DOMAIN cli.args |-> Str(cli.args[i])]]) @@ c1
        ELSE c1

\* the merge of the command line into config, and the two checks
MergeAndValidate ==
    /\ pc = "merge"
    /\ config' = Merged
    /\ IF "destination" \notin DOMAIN Merged \/ "include" \notin DOMAIN Merged
       THEN Exit(1)
       ELSE pc' = "mkdtemp" /\ UNCHANGED status
    /\ UNCHANGED <<env, cli, files, dirs, idx, log, exc, hist, inp>>

\* tmpd = tempfile.mkdtemp()
Mkdtemp ==
    /\ pc = "mkdtemp"
    /\ dirs' = dirs \cup Ancestors(TMPD)
    /\ hist' = [hist EXCEPT !.tmpCreated = TRUE]
    /\ pc' = "clone"
    /\ UNCHANGED <<env, cli, config, files, idx, log, exc, status, inp>>

\* clone_helpers(work_dir, repo): the path it returns
Checkout(work_dir) == Join2(work_dir, <<"charm-helpers">>)

\* clone_helpers, git succeeding: the upstream files appear in the checkout
CloneOk ==
    /\ pc = "clone"
    /\ LET put == {Canon(env.cwd, Join2(Checkout(TMPD), f)) : f \in env.upstream}
       IN  /\ files' = files \cup put
           /\ dirs' = dirs \cup UNION {Ancestors(Parent(f)) : f \in put}
    /\ pc' = "sync_helpers"
    /\ UNCHANGED <<env, cli, config, idx, log, exc, status, hist, inp>>

\* clone_helpers with git's exit status ignored (subprocess.call): the run
\* goes on to sync_helpers
CloneFailIgnored ==
    /\ pc = "clone"
    /\ \E left \in BOOLEAN :
          dirs' = IF left THEN dirs \cup {Canon(env.cwd, Checkout(TMPD))} ELSE dirs
    /\ hist' = [hist EXCEPT !.cloneFailed = TRUE]
    /\ pc' = "sync_helpers"
    /\ UNCHANGED <<env, cli, config, files, idx, log, exc, status, inp>>

\* clone_helpers, git failing: check_call raises; git may leave its directory
CloneFail ==
    /\ pc = "clone"
    /\ \E left \in BOOLEAN :
          dirs' = IF left THEN dirs \cup {Canon(env.cwd, Checkout(TMPD))} ELSE dirs
    /\ exc' = TRUE
    /\ hist' = [hist EXCEPT !.cloneFailed = TRUE, !.raisedIn = "clone_helpers"]
    /\ pc' = "except"
    /\ UNCHANGED <<env, cli, config, files, idx, log, status, inp>>

\* sync_helpers up to its loop
SyncHelpersStart ==
    /\ pc = "sync_helpers"
    /\ LET fs1 == CleanDest(FS, config["destination"])
       IN  files' = fs1.files /\ dirs' = fs1.dirs
    /\ idx' = 1
    /\ hist' = [hist EXCEPT !.syncInvoked = TRUE,
                            !.atSync = [files |-> files, dirs |-> dirs]]
    /\ pc' = "loop"
    /\ UNCHANGED <<env, cli, config, log, exc, status, inp>>

IncludeList == config["include"]

\* the effect of an operation of the sync engine with outcome r
Effect(r) ==
    /\ files' = r.fs.files
    /\ dirs' = r.fs.dirs
    /\ log' = log \o r.log

\* the iteration for include[idx] had outcome r: the loop goes on, or the
\* exception leaves sync_helpers
Iterated(r) ==
    /\ Effect(r)
    /\ hist' = [hist EXCEPT !.seg = [n |-> idx, raised |-> r.raised, log |-> r.log],
                            !.raisedIn = IF r.raised THEN "sync_helpers" ELSE @]
    /\ exc' = r.raised
    /\ pc' = IF r.raised THEN "except" ELSE pc
    /\ idx' = IF r.raised THEN idx ELSE idx + 1

\* one iteration of "for inc in include"
SyncNext ==
    /\ pc = "loop"
    /\ IncludeList.type = "list"
    /\ idx <= Len(IncludeList.v)
    /\ Iterated(SyncSpec(FS, Checkout(TMPD), config["destination"],
                         IncludeList.v[idx],
                         parse_sync_options(IF "options" \in DOMAIN config
                                            THEN config["options"] ELSE <<>>)))
    /\ UNCHANGED <<env, cli, config, status, inp>>

\* "for inc in include" over None: TypeError
SyncNotIterable ==
    /\ pc = "loop"
    /\ IncludeList.type = "NoneType"
    /\ exc' = TRUE
    /\ hist' = [hist EXCEPT !.raisedIn = "sync_helpers"]
    /\ pc' = "except"
    /\ UNCHANGED <<env, cli, config, files, dirs, idx, log, status, inp>>

\* the loop is over: sync_helpers returns
SyncHelpersReturn ==
    /\ pc = "loop"
    /\ IncludeList.type = "list"
    /\ idx > Len(IncludeList.v)
    /\ pc' = "finally"
    /\ UNCHANGED <<env, cli, config, files, dirs, idx, log, exc, status, hist, inp>>

\* except Exception as e: the error is logged and raised again
Except ==
    /\ pc = "except"
    /\ pc' = "finally"
    /\ UNCHANGED <<env, cli, config, files, dirs, idx, log, exc, status, hist, inp>>

\* the rmtree at the end of the try block instead of in a finally clause:
\* an exception skips it
CleanupOnSuccessOnly ==
    /\ pc = "finally"
    /\ LET fs1 == IF exc THEN FS ELSE rmtree(FS, TMPD)
       IN  files' = fs1.files /\ dirs' = fs1.dirs
    /\ Exit(IF exc THEN 1 ELSE 0)
    /\ UNCHANGED <<env, cli, config, idx, log, exc, hist, inp>>

\* finally: shutil.rmtree(tmpd), and the process ends
Finally ==
    /\ pc = "finally"
    /\ LET fs1 == rmtree(FS, TMPD)
       IN  files' = fs1.files /\ dirs' = fs1.dirs
    /\ Exit(IF exc THEN 1 ELSE 0)
    /\ UNCHANGED <<env, cli, config, idx, log, exc, hist, inp>>

\* the tool is run again, with the same command line, config file and upstream
RunAgain ==
    /\ pc = "exit"
    /\ status = 0
    /\ hist.runs < MaxRuns
    /\ pc' = "start"
    /\ config' = <<>>
    /\ idx' = 0
    /\ log' = <<>>
    /\ hist' = [NoHist EXCEPT !.runs = hist.runs + 1,
                              !.before = Under(FS, env.dest),
                              !.first = IF hist.runs = 1 THEN Under(FS, env.dest)
                                        ELSE hist.first]
    /\ UNCHANGED <<env, cli, files, dirs, exc, status, inp>>

Next ==
    \/ LoadConfig
    \/ MergeAndValidate
    \/ Mkdtemp
    \/ CloneOk
    \/ CloneFail
    \/ SyncHelpersStart
    \/ SyncNext
    \/ SyncNotIterable
    \/ SyncHelpersReturn
    \/ Except
    \/ Finally
    \/ RunAgain

Spec == Init /\ [][Next]_vars

-----------------------------------------------------------------------------
(* sync_helpers as one function, for the properties that compare two runs *)

RECURSIVE SyncAll(_, _, _, _, _)
SyncAll(r, src, dest, include, global_options) ==
    IF r.raised \/ include = <<>> THEN r
    ELSE SyncAll(Then(r, SyncSpec(r.fs, src, dest, include[1], global_options)),
                 src, dest, Tail(include), global_options)

\* sync_helpers(include, src, dest, options), include a list
sync_helpers(fs, include, src, dest, options) ==
    SyncAll(Ok(CleanDest(fs, dest), <<>>), src, dest, include,
            parse_sync_options(options))

-----------------------------------------------------------------------------
(* Properties of the run *)

TmpCanon == Canon(<<>>, TMPD)

TmpGone == TmpCanon \notin dirs /\ \A e \in files \cup dirs : ~Below(e, TmpCanon)

\* C1: a run that made the scratch workspace has removed it, with everything
\* in it, when the process ends, whether clone_helpers and sync_helpers both
\* succeeded or one of them raised; and when one raised the exit status is
\* not zero.
C1_WorkspaceRemoved ==
    (pc = "exit" /\ hist.tmpCreated)
        => /\ TmpGone
           /\ hist.raisedIn # "none" => status # 0
           /\ hist.raisedIn = "none" => status = 0

\* a run in which sync_helpers raised, the clone being in the workspace, ended
C1_Witness ==
    /\ pc = "exit"
    /\ hist.tmpCreated
    /\ hist.raisedIn = "sync_helpers"
    /\ status = 1
    /\ TmpGone

\* C10: until clone_helpers has succeeded, and for good when it raised,
\* sync_helpers has not been invoked and the destination holds exactly what
\* it held when the process started.
C10_DestUntouchedUnlessFetched ==
    (pc \in {"start", "merge", "mkdtemp", "clone"} \/ hist.cloneFailed)
        => /\ ~hist.syncInvoked
           /\ Under(FS, env.dest) = hist.before

\* clone_helpers raised in a run whose destination held files, and the run ended
C10_Witness ==
    /\ pc = "exit"
    /\ hist.cloneFailed
    /\ hist.before.files # {}
    /\ Under(FS, env.dest) = hist.before

\* the file system without the destination and what is below it
WithoutDest(fs, dest) ==
    [fs EXCEPT !.files = @ \ Under(fs, dest).files,
               !.dirs = @ \ Under(fs, dest).dirs]

\* what sync_helpers leaves at the destination when it finds none there
FromNothing ==
    Under(sync_helpers(WithoutDest([files |-> hist.atSync.files,
                                    dirs |-> hist.atSync.dirs,
                                    cwd |-> env.cwd], env.dest),
                       IncludeList.v, Checkout(TMPD), config["destination"],
                       IF "options" \in DOMAIN config
                       THEN config["options"] ELSE <<>>).fs,
          env.dest)

\* C5: what the destination holds after a successful sync_helpers is what
\* sync_helpers leaves when there was no destination before, whatever the
\* destination held; and a second run with the same inputs leaves what the
\* first one left.
C5_DestIndependentOfPrior ==
    (pc = "exit" /\ status = 0 /\ hist.syncInvoked)
        => /\ Under(FS, env.dest) = FromNothing
           /\ hist.runs > 1 => Under(FS, env.dest) = hist.first

\* a second run has synced something over what the first run left
C5_Witness ==
    /\ pc = "exit"
    /\ status = 0
    /\ hist.syncInvoked
    /\ hist.runs = 2
    /\ hist.before = hist.first
    /\ \E f \in Under(FS, env.dest).files : basename(f) # INIT_PY

\* the source path of the entry named by the components parts
C8_Src(parts) == StrJoin(<<Checkout(TMPD), CH>> \o parts, "/")

\* what a module sync of name does, in order: the root __init__.py, the
\* __init__.py of each proper prefix from the shortest, and the module
C8_Expected(name) ==
    LET parts == Split(name, ".")
    IN  [j \in 1..Len(parts) |->
            [kind |-> "init", name |-> name,
             src |-> C8_Src(SubSeq(parts, 1, j - 1) \o <<INIT_PY>>)]]
        \o <<[kind |-> "module", name |-> name, src |-> C8_Src(parts)]>>

RECURSIVE C8_ExpectedAll(_, _)
C8_ExpectedAll(k, v) ==
    IF v = <<>> THEN <<>>
    ELSE C8_Expected(k \o <<".">> \o Split(v[1], "|")[1])
         \o C8_ExpectedAll(k, Tail(v))

C8_Match(e, x) ==
    IF x.kind = "init" THEN e.op = "pyfile" /\ e.src = x.src
    ELSE \/ e.op = "directory" /\ e.src = x.src
         \/ e.op = "pyfile" /\ e.src = x.src \o PY
         \/ e.op = "warn" /\ e.src = x.name

\* C8: the iteration of sync_helpers over a mapping include-spec {k: [m1..mn]}
\* syncs the modules k.m1 .. k.mn in that order and nothing else, each as: the
\* root __init__.py, then the __init__.py of every proper prefix of the name
\* from the shortest to the longest, then the module itself (an iteration
\* that raised has done an initial part of this).
C8_MappingOrder ==
    IF hist.seg.n = 0 THEN TRUE
    ELSE LET spec == IncludeList.v[hist.seg.n]
         IN  spec.type = "dict"
             => LET E == C8_ExpectedAll(spec.k, spec.v)
                    L == hist.seg.log
                IN  /\ Len(L) <= Len(E)
                    /\ ~hist.seg.raised => Len(L) = Len(E)
                    /\ \A i \in DOMAIN L : C8_Match(L[i], E[i])

\* a mapping include-spec of two members, one of them with two parents, synced
C8_Witness ==
    /\ hist.seg.n > 0
    /\ ~hist.seg.raised
    /\ IncludeList.v[hist.seg.n].type = "dict"
    /\ Len(IncludeList.v[hist.seg.n].v) = 2
    /\ Len(hist.seg.log) = 7
    /\ hist.seg.log[7].op = "directory"

\* the directories from the destination root down to directory holder
C2_Chain(holder) ==
    LET root == Canon(env.cwd, env.dest)
    IN  {d \in Ancestors(holder) : d = root \/ Below(d, root)}

\* the log entries of modules synced as a directory or as a .py file
C2_Synced ==
    {i \in DOMAIN log : \/ log[i].op = "directory"
                        \/ log[i].op = "pyfile" /\ basename(log[i].src) # INIT_PY}

\* C2: when sync_helpers has completed, every directory there is from the
\* destination root down to the directory of a module synced as a directory,
\* or to the directory a module synced as a .py file was put in, holds an
\* __init__.py, for relative and for absolute destinations.
C2_Importable ==
    (pc = "exit" /\ status = 0 /\ hist.syncInvoked)
        => \A i \in C2_Synced :
              \A d \in C2_Chain(Canon(env.cwd, log[i].dest)) :
                  d \in dirs => (d \o <<"/">> \o INIT_PY) \in files

\* the module path of a dotted name, below the upstream charmhelpers directory
C3_Path(name) == StrJoin(<<CH>> \o Split(name, "."), "/")

\* upstream has neither a directory nor a .py file for name
C3_Missing(name) ==
    /\ (C3_Path(name) \o PY) \notin env.upstream
    /\ \A f \in env.upstream : ~StartsWith(f, C3_Path(name) \o <<"/">>)

\* C3: the sync of an include-spec naming a module that upstream has neither
\* as a directory nor as a .py file, whatever the number of its dotted
\* components, ends with the warning and does not raise: the loop of
\* sync_helpers goes on.
C3_MissingModuleSkipped ==
    IF hist.seg.n = 0 THEN TRUE
    ELSE LET spec == IncludeList.v[hist.seg.n]
         IN  (spec.type = "str" /\ C3_Missing(Split(spec.s, "|")[1]))
             => /\ ~hist.seg.raised
                /\ hist.seg.log # <<>>
                /\ Last(hist.seg.log).op = "warn"
                /\ pc \in {"loop", "finally", "exit"}
                /\ pc = "exit" => status = 0

\* the configuration has no include list, or an empty one, and the command
\* line has no positional arguments
C4_NoModules ==
    /\ cli.args = <<>>
    /\ \/ cli.config # "valid"
       \/ "include" \notin DOMAIN env.cfgfile
       \/ env.cfgfile["include"].type = "NoneType"
       \/ env.cfgfile["include"].v = <<>>

\* C4: a run with no modules to sync ends with status 1 before it has changed
\* the file system: no scratch workspace, no fetch, the destination neither
\* removed nor made.
C4_NoModulesFailsFirst ==
    C4_NoModules
        => /\ pc = "exit" => status = 1
           /\ ~hist.tmpCreated
           /\ ~hist.syncInvoked
           /\ Under(FS, env.dest) = hist.before

-----------------------------------------------------------------------------
(* sync_directory on its own: a source package, a destination, an option   *)
(* list.  inp = [f, src, dest, opts].                                      *)

MaxOpts == 2       \* longest option list

\* the source package: these files always ...
PkgBase == { <<"a", ".py">>, <<"raw", "/", "r", ".py">>,
             <<"raw", "/", "deep", "/">> \o INIT_PY,
             <<"raw", "/", "deep", "/", "d", ".py">>,
             <<"sub", "/", "m", ".py">> }

\* ... and any of these
PkgOptional == { INIT_PY, <<"b", ".txt">>, <<"c", ".dat">>,
                 <<"sub", "/">> \o INIT_PY, <<"sub", "/", "n", ".txt">> }

OptionPool == { INC_ALL, <<"inc", "=", "*", ".txt">>, <<"inc", "=", "b", ".txt">>,
                <<"verbose">> }

OptionLists == UNION {[1..n -> OptionPool] : n \in 0..MaxOpts}

PkgSrc == PathJoin(<<Checkout(TMPD), CH, <<"pkg">> >>)

PkgDest == <<"hooks", "/", "ch", "/", "pkg">>

Idle ==
    /\ cli = [config |-> "none", dest_dir |-> <<>>, args |-> <<>>]
    /\ config = <<>>
    /\ idx = 0
    /\ log = <<>>
    /\ exc = FALSE
    /\ status = 0
    /\ hist = NoHist

FilterInit ==
    /\ pc = "sync_directory"
    /\ \E pkg \in SUBSET PkgOptional, opts \in OptionLists :
        LET put == {Canon(<<>>, Join2(PkgSrc, f)) : f \in PkgBase \cup pkg}
        IN  /\ env = [cwd |-> <<"/", "home">>, dest |-> PkgDest,
                      upstream |-> {}, cfgfile |-> <<>>]
            /\ inp = [f |-> "sync_directory", src |-> PkgSrc, dest |-> PkgDest,
                      opts |-> opts]
            /\ files = put
            /\ dirs = UNION {Ancestors(Parent(f)) : f \in put}
                      \cup Ancestors(<<"/", "home">>)
    /\ Idle

\* sync_directory(src, dest, opts), the destination being absent
SyncDirectory ==
    /\ pc = "sync_directory"
    /\ Effect(sync_directory(FS, inp.src, inp.dest, inp.opts))
    /\ pc' = "synced"
    /\ UNCHANGED <<env, cli, config, idx, exc, status, hist, inp>>

\* sync_directory(src, dest, opts) again, over what the first call left
SyncDirectoryAgain ==
    /\ pc = "synced"
    /\ Effect(sync_directory(FS, inp.src, inp.dest, inp.opts))
    /\ pc' = "synced again"
    /\ UNCHANGED <<env, cli, config, idx, exc, status, hist, inp>>

FilterNext ==
    \/ SyncDirectory
    \/ SyncDirectoryAgain

SpecFilter == FilterInit /\ [][FilterNext]_vars

SrcCanon == Canon(env.cwd, inp.src)

DestCanon == Canon(env.cwd, inp.dest)

\* where the copy of source entry e (a canonical path below the source) goes
CopyOf(e) == DestCanon \o SubSeq(e, Len(SrcCanon) + 1, Len(e))

\* the globs of the options of the form inc=<glob>
C6_Globs ==
    {SubSeq(inp.opts[i], 3, Len(inp.opts[i])) :
        i \in {k \in DOMAIN inp.opts : StartsWith(inp.opts[k], <<"inc", "=">>)}}

\* the files that are children of the source directory, by name
C6_Children == {n \in listdir(FS, inp.src) : isfile(FS, Join2(inp.src, n))}

\* C6: with at least one inc=<glob> option and no inc=*, the directory sync
\* keeps every child file ending in .py, keeps every other child file whose
\* name matches one of the globs, and leaves out every other child file
\* whose name matches none.
C6_FilterByName ==
    (pc # "sync_directory" /\ C6_Globs # {} /\ <<"*">> \notin C6_Globs)
        => \A n \in C6_Children :
              (Canon(env.cwd, Join2(inp.dest, n)) \in files)
                  <=> (EndsWith(n, PY) \/ \E g \in C6_Globs : fnmatch(n, g))

\* the directories below the source directory that hold no __init__.py file
C7_NonPackages ==
    {d \in dirs : Below(d, SrcCanon) /\ (d \o <<"/">> \o INIT_PY) \notin files}

\* directory d of the source, and whatever is below it, has no copy
C7_NotCopied(d) ==
    \A e \in files \cup dirs : e # CopyOf(d) /\ ~Below(e, CopyOf(d))

\* C7 as claimed: whatever the option list, inc=* included, no directory
\* below the synced one that holds no __init__.py is copied, nor anything
\* beneath it.
C7_NeverNonPackages ==
    pc # "sync_directory" => \A d \in C7_NonPackages : C7_NotCopied(d)

\* C7: for every directory sync whose option list does not contain inc=*, no
\* directory below the synced one that holds no __init__.py is copied to the
\* destination, nor anything beneath it.
C7_NoNonPackagesWhenFiltering ==
    (pc # "sync_directory" /\ ~InList(INC_ALL, inp.opts))
        => \A d \in C7_NonPackages : C7_NotCopied(d)

\* a filtering sync of a package with two directories that are not packages,
\* which copied the package's own modules
C7_Witness ==
    /\ pc = "synced"
    /\ ~InList(INC_ALL, inp.opts)
    /\ inp.opts # <<>>
    /\ Cardinality(C7_NonPackages) = 2
    /\ CopyOf(SrcCanon \o <<"/", "a", ".py">>) \in files
    /\ \A d \in C7_NonPackages : C7_NotCopied(d)

-----------------------------------------------------------------------------
(* extract_options on its own.  inp = [f, inc, g, out].                    *)

MaxPipes == 2      \* most "|" in an include-spec

ModuleNames == { <<"core">>, <<"core", ".", "host">> }

\* what may stand between two "|", or after the last
OptionGroups ==
    { <<>>, <<"inc", "=", "*">>,
      <<"inc", "=", "*", ".txt", ",", "inc", "=", "*", ".dat">> }

RECURSIVE Suffixes(_)
Suffixes(n) ==
    IF n = 0 THEN {<<>>}
    ELSE {<<"|">> \o g \o s : g \in OptionGroups, s \in Suffixes(n - 1)}

IncludeStrings ==
    {m \o s : m \in ModuleNames, s \in UNION {Suffixes(n) : n \in 0..MaxPipes}}

GlobalOptions ==
    { [type |-> "NoneType", v |-> <<>>],
      [type |-> "list", v |-> <<>>],
      [type |-> "list", v |-> << <<"inc", "=", "*", ".cfg">> >>],
      [type |-> "str", v |-> <<"inc", "=", "*", ".cfg">>] }

NoOut == [raised |-> FALSE, inc |-> <<>>, opts |-> <<>>]

OptsInit ==
    /\ pc = "extract_options"
    /\ \E i \in IncludeStrings, g \in GlobalOptions :
          inp = [f |-> "extract_options", inc |-> i, g |-> g, out |-> NoOut]
    /\ env = [cwd |-> <<>>, dest |-> <<>>, upstream |-> {}, cfgfile |-> <<>>]
    /\ files = {}
    /\ dirs = {<<>>}
    /\ Idle

\* inc, opts = extract_options(inc, global_options)
ExtractOptions ==
    /\ pc = "extract_options"
    /\ inp' = [inp EXCEPT !.out = extract_options(inp.inc, inp.g)]
    /\ pc' = IF extract_options(inp.inc, inp.g).raised THEN "raised" ELSE "extracted"
    /\ UNCHANGED <<env, cli, config, files, dirs, idx, log, exc, status, hist>>

OptsNext == ExtractOptions

SpecOpts == OptsInit /\ [][OptsNext]_vars

\* the options of the groups, each split at its commas, in order
RECURSIVE C9_Options(_)
C9_Options(groups) ==
    IF groups = <<>> THEN <<>>
    ELSE (IF groups[1] = <<>> THEN <<>> ELSE Split(groups[1], ","))
         \o C9_Options(Tail(groups))

\* the global options as a list
C9_Global ==
    IF inp.g.type = "str" THEN <<inp.g.v>> ELSE inp.g.v

\* C9: extract_options does not raise; a spec without "|" gives the spec and
\* the global options; a spec with one or more "|"-separated per-module
\* options gives the module name and all of them, in order, before the
\* global options.
C9_ParsesEverySpec ==
    pc # "extract_options"
        => /\ ~inp.out.raised
           /\ inp.out.inc = Split(inp.inc, "|")[1]
           /\ inp.out.opts = C9_Options(Tail(Split(inp.inc, "|"))) \o C9_Global

====
